---- MODULE Spec2Model ----
(***************************************************************************)
(* minidump_dump (src/src/processor/minidump_dump.cc): command line,       *)
(* mode selection, the full-dump walk over the records of a minidump and   *)
(* the rendering of the raw Linux streams.                                 *)
(*                                                                         *)
(* Three specifications share the variables below.                         *)
(*   Spec      the whole program, main() to exit.  A call of               *)
(*             DumpRawStream is one step; stdout is kept as the sequence    *)
(*             of sections written (the text inside a section is left to   *)
(*             the library's Print() or to SpecRaw).                       *)
(*   SpecRaw   one call of DumpRawStream, statement by statement, on       *)
(*             streams of at most MaxLen bytes; `out` is the exact text.   *)
(*   SpecWide  the same call on every stream length a 32-bit length field  *)
(*             can hold, including those above INT_MAX.                    *)
(***************************************************************************)
EXTENDS Integers, Sequences, FiniteSets

VARIABLES
  \* ---- the process (Spec)
  pc,          \* position in main / SetupOptions / PrintMinidumpDump
  rest,        \* option characters getopt has not returned yet (argv from optind)
  npos,        \* non-option arguments of the command line (argc - optind at the end)
  options,     \* struct Options
  exit_code,   \* -1 while running, else the process exit status
  result,      \* return value of PrintMinidumpDump: "none", "true", "false"
  errors,      \* int errors (in SpecRaw: *errors)
  sink,        \* stdout, as the sequence of sections and lines written
  stderr,      \* what Usage(error) and the missing-file message wrote
  log,         \* BPLOG lines, <<severity, message>>
  found,       \* what the minidump library returned non-null / located
  unread,      \* located raw streams whose ReadBytes returned false, counted
  attempted,   \* calls made on the Minidump object, in order
  modules,     \* what GetModuleList returned in -M mode
  sys_info,    \* what GetSystemInfo returned in -P mode
  \* ---- one call of DumpRawStream (SpecRaw, SpecWide)
  rpc,         \* position inside DumpRawStream
  stream,      \* index of the (stream_type, stream_name) pair passed in
  file,        \* the stream as the container holds it
  errors_in,   \* *errors on entry
  frame,       \* locals: length, contents, current_offset, remaining, ...
  out,         \* text written by this call
  touched,     \* <<first, end>> of the bytes of contents the last read covered
  calls,       \* Minidump calls made by this call
  iterations   \* loop bodies started

procVars == <<pc, rest, npos, options, exit_code, result, sink, stderr, found,
              unread, attempted, modules, sys_info>>
rawVars == <<rpc, stream, file, errors_in, frame, out, touched, calls, iterations>>
vars == <<procVars, errors, log, rawVars>>

(***************************************************************************)
(* Bounds of the model.                                                    *)
(***************************************************************************)
MaxArgs == 2         \* option characters on the command line
MaxPositional == 2   \* non-option arguments on the command line
MaxModules == 2      \* modules in a module list
MaxLen == 3          \* bytes in a small raw stream
MaxRawStreams == 2   \* raw Linux streams a container holds
MaxOverrun == 1      \* bytes an out-of-bounds %s read can run on before a NUL

-----------------------------------------------------------------------------
(***************************************************************************)
(* Unsigned 32-bit quantities.  A value v is kept as <<v \div 2^16,        *)
(* v % 2^16>>, so that 2^31 and 2^32 - 1 are ordinary values.              *)
(***************************************************************************)
Half == 65536

U32(n) == <<n \div Half, n % Half>>

Norm(hi, lo) == <<hi + (lo \div Half), lo % Half>>

Add(x, y) == Norm(x[1] + y[1], x[2] + y[2])

Sub(x, y) == Norm(x[1] - y[1], x[2] - y[2])

Less(x, y) == x[1] < y[1] \/ (x[1] = y[1] /\ x[2] < y[2])

LessEq(x, y) == x = y \/ Less(x, y)

Zero == U32(0)

One == U32(1)

INT_MAX == <<32767, 65535>>

UINT32_MAX == <<65535, 65535>>

-----------------------------------------------------------------------------
(***************************************************************************)
(* The minidump as the library presents it.                                *)
(***************************************************************************)
\* The structured records PrintMinidumpDump asks for, in the order it asks.
Records == <<"thread_list", "thread_name_list", "module_list", "memory_list",
             "exception", "assertion", "system_info", "misc_info",
             "breakpad_info", "memory_info_list", "crashpad_info">>

\* The raw streams PrintMinidumpDump passes to DumpRawStream, in call order.
RawStreams == <<"MD_LINUX_CMD_LINE", "MD_LINUX_ENVIRON", "MD_LINUX_LSB_RELEASE",
                "MD_LINUX_PROC_STATUS", "MD_LINUX_CPU_INFO", "MD_LINUX_MAPS">>

RecordSet == {Records[k] : k \in 1..Len(Records)}

RawStreamSet == {RawStreams[k] : k \in 1..Len(RawStreams)}

\* A raw stream of the container: whether SeekToStreamType finds it, the
\* length it reports, whether ReadBytes can read it, and the offsets of its
\* NUL bytes (every other byte is some non-NUL byte).
NoFile == [located |-> FALSE, length |-> Zero, readable |-> FALSE, nuls |-> {}]

SmallOffsets(n) == {U32(k) : k \in 0..(n - 1)}

SmallFiles ==
  {NoFile} \cup
  {[located |-> TRUE, length |-> U32(n), readable |-> r, nuls |-> z] :
     n \in 0..MaxLen, r \in BOOLEAN, z \in {{}}} \cup
  UNION {{[located |-> TRUE, length |-> U32(n), readable |-> TRUE, nuls |-> z] :
            z \in SUBSET SmallOffsets(n)} : n \in 1..MaxLen}

\* Lengths around the largest signed int and the largest length the 32-bit
\* field holds; NUL bytes at the first, second and last offset.
WideLengths == {INT_MAX, Add(INT_MAX, One), UINT32_MAX}

WideOffsets(len) == {Zero, One, Sub(len, One)}

WideFiles ==
  UNION {{[located |-> TRUE, length |-> len, readable |-> TRUE, nuls |-> z] :
            z \in SUBSET WideOffsets(len)} : len \in WideLengths}

\* A module of the module list, as the four strings a MinidumpModule exposes.
ModuleValues == {[code_file |-> "a.so", code_identifier |-> "id1",
                  debug_file |-> "a.pdb", debug_identifier |-> "dbg1"],
                 [code_file |-> "b.so", code_identifier |-> "id2",
                  debug_file |-> "b.pdb", debug_identifier |-> "dbg2"]}

ModuleLists ==
  {[present |-> FALSE, list |-> <<>>]} \cup
  UNION {{[present |-> TRUE, list |-> l] : l \in [1..n -> ModuleValues]} :
           n \in 0..MaxModules}

\* MinidumpModuleList::GetModuleAtIndex: <<the module at index i>> (0-based)
\* of a list of module_count() modules, and <<>> (NULL) for any other index.
GetModuleAtIndex(list, i) == IF i < Len(list) THEN <<list[i + 1]>> ELSE <<>>

\* A MinidumpSystemInfo: GetOS(), GetCPU() and the raw record with the version.
SystemInfos ==
  {[present |-> FALSE, raw |-> FALSE, os |-> "", cpu |-> "",
    major_version |-> 0, minor_version |-> 0, build_number |-> 0]} \cup
  {[present |-> TRUE, raw |-> r, os |-> "linux", cpu |-> "amd64",
    major_version |-> a, minor_version |-> b, build_number |-> c] :
     r \in BOOLEAN, a \in {0, 6}, b \in {0, 1}, c \in {0, 19045}}

-----------------------------------------------------------------------------
(***************************************************************************)
(* Initial states.                                                         *)
(***************************************************************************)
\* Options::Options()
DefaultOptions == [minidumpPath |-> "", hexdump |-> FALSE, hexdump_width |-> 16,
                   modules_debug_info |-> FALSE, platform_info |-> FALSE]

\* What getopt(argc, argv, "xMPh") can return before -1.
OptionChars == {"x", "M", "P", "h", "?"}

CommandLines == UNION {[1..n -> OptionChars] : n \in 0..MaxArgs}

IdleFrame == [length |-> Zero, size |-> Zero, contents |-> {},
              current_offset |-> Zero, remaining |-> Zero,
              int_remaining |-> Zero, next_null |-> <<>>]

RawIdle ==
  /\ rpc = "idle"
  /\ stream = 1
  /\ file = NoFile
  /\ errors_in = 0
  /\ frame = IdleFrame
  /\ out = <<>>
  /\ touched = <<Zero, Zero>>
  /\ calls = <<>>
  /\ iterations = 0

Init ==
  /\ pc = "getopt"
  /\ rest \in CommandLines
  /\ npos \in 0..MaxPositional
  /\ options = DefaultOptions
  /\ exit_code = -1
  /\ result = "none"
  /\ errors = 0
  /\ sink = <<>>
  /\ stderr = <<>>
  /\ log = <<>>
  /\ found = {}
  /\ unread = 0
  /\ attempted = <<>>
  /\ modules = [present |-> FALSE, list |-> <<>>]
  /\ sys_info = CHOOSE s \in SystemInfos : ~s.present
  /\ RawIdle

-----------------------------------------------------------------------------
(***************************************************************************)
(* SetupOptions and Usage.                                                 *)
(***************************************************************************)
\* Usage(argc, argv, error): the text goes to stderr or to stdout.
Usage(error) ==
  IF error
    THEN stderr' = Append(stderr, <<"usage">>) /\ UNCHANGED sink
    ELSE sink' = Append(sink, <<"usage">>) /\ UNCHANGED stderr

\* exit(code) inside SetupOptions.
Exit(code) ==
  /\ exit_code' = code
  /\ pc' = "exit"

OptionX ==
  /\ pc = "getopt" /\ rest # <<>> /\ Head(rest) = "x"
  /\ options' = [options EXCEPT !.hexdump = TRUE]
  /\ rest' = Tail(rest)
  /\ UNCHANGED <<pc, npos, exit_code, result, sink, stderr, found, unread,
                 attempted, modules, sys_info, errors, log, rawVars>>

OptionM ==
  /\ pc = "getopt" /\ rest # <<>> /\ Head(rest) = "M"
  /\ options' = [options EXCEPT !.modules_debug_info = TRUE]
  /\ rest' = Tail(rest)
  /\ UNCHANGED <<pc, npos, exit_code, result, sink, stderr, found, unread,
                 attempted, modules, sys_info, errors, log, rawVars>>

OptionP ==
  /\ pc = "getopt" /\ rest # <<>> /\ Head(rest) = "P"
  /\ options' = [options EXCEPT !.platform_info = TRUE]
  /\ rest' = Tail(rest)
  /\ UNCHANGED <<pc, npos, exit_code, result, sink, stderr, found, unread,
                 attempted, modules, sys_info, errors, log, rawVars>>

\* -h without the exit(0): the usage is written and option parsing goes on.
OptionHFallsThrough ==
  /\ pc = "getopt" /\ rest # <<>> /\ Head(rest) = "h"
  /\ Usage(FALSE)
  /\ rest' = Tail(rest)
  /\ UNCHANGED <<pc, exit_code, npos, options, result, found, unread, attempted,
                 modules, sys_info, errors, log, rawVars>>

OptionH ==
  /\ pc = "getopt" /\ rest # <<>> /\ Head(rest) = "h"
  /\ Usage(FALSE)
  /\ Exit(0)
  /\ rest' = Tail(rest)
  /\ UNCHANGED <<npos, options, result, found, unread, attempted, modules,
                 sys_info, errors, log, rawVars>>

OptionDefault ==
  /\ pc = "getopt" /\ rest # <<>> /\ Head(rest) \notin {"x", "M", "P", "h"}
  /\ Usage(TRUE)
  /\ Exit(1)
  /\ rest' = Tail(rest)
  /\ UNCHANGED <<npos, options, result, found, unread, attempted, modules,
                 sys_info, errors, log, rawVars>>

\* getopt returned -1 and (argc - optind) != 1.
MissingMinidumpFile ==
  /\ pc = "getopt" /\ rest = <<>>
  /\ npos # 1
  /\ stderr' = Append(stderr, <<"Missing minidump file">>)
  /\ Exit(1)
  /\ UNCHANGED <<rest, npos, options, result, sink, found, unread, attempted,
                 modules, sys_info, errors, log, rawVars>>

\* getopt returned -1 and argv[optind] is the one path.
SetMinidumpPath ==
  /\ pc = "getopt" /\ rest = <<>>
  /\ npos = 1
  /\ options' = [options EXCEPT !.minidumpPath = "argv[optind]"]
  /\ pc' = "read"
  /\ UNCHANGED <<rest, npos, exit_code, result, sink, stderr, found, unread,
                 attempted, modules, sys_info, errors, log, rawVars>>

SetupOptions ==
  \/ OptionX
  \/ OptionM
  \/ OptionP
  \/ OptionH
  \/ OptionDefault
  \/ MissingMinidumpFile
  \/ SetMinidumpPath

-----------------------------------------------------------------------------
(***************************************************************************)
(* PrintMinidumpDump.                                                      *)
(***************************************************************************)
\* The two mode blocks in the other order: -P is looked at before -M.
ReadMinidumpPlatformFirst ==
  /\ pc = "read"
  /\ attempted' = Append(attempted, "Read")
  /\ \E ok \in BOOLEAN :
       IF ok
         THEN /\ found' = found \cup {"minidump"}
              /\ pc' = IF options.platform_info THEN "platform_info"
                       ELSE IF options.modules_debug_info THEN "modules_debug_info"
                       ELSE "Print"
              /\ UNCHANGED <<log, result, exit_code>>
         ELSE /\ log' = Append(log, <<"ERROR", "minidump.Read() failed">>)
              /\ result' = "false"
              /\ exit_code' = 1
              /\ pc' = "exit"
              /\ UNCHANGED found
  /\ UNCHANGED <<rest, npos, options, sink, stderr, unread, modules, sys_info,
                 errors, rawVars>>

\* Minidump minidump(path, hexdump); minidump.Read(); then the mode is chosen.
\* main() turns a false return into exit status 1.
ReadMinidump ==
  /\ pc = "read"
  /\ attempted' = Append(attempted, "Read")
  /\ \E ok \in BOOLEAN :
       IF ok
         THEN /\ found' = found \cup {"minidump"}
              /\ pc' = IF options.modules_debug_info THEN "modules_debug_info"
                       ELSE IF options.platform_info THEN "platform_info"
                       ELSE "Print"
              /\ UNCHANGED <<log, result, exit_code>>
         ELSE /\ log' = Append(log, <<"ERROR", "minidump.Read() failed">>)
              /\ result' = "false"
              /\ exit_code' = 1
              /\ pc' = "exit"
              /\ UNCHANGED found
  /\ UNCHANGED <<rest, npos, options, sink, stderr, unread, modules, sys_info,
                 errors, rawVars>>

\* The line printf("%s;%s;%s;%s\n", ...) writes for one module.
ModuleLine(m) == <<"module", m.code_file, m.code_identifier, m.debug_file,
                   m.debug_identifier>>

\* The loop with the bound one too small: the last module is not printed.
ModuleLinesOffByOne(list, i) ==
  [k \in 1..(Len(list) - 1 - i) |->
     ModuleLine(GetModuleAtIndex(list, i + k - 1)[1])]

\* for (i = 0; i < modules_n; ++i) { module = modules->GetModuleAtIndex(i);
\* if (module != nullptr) printf(...); }  from index i on.
RECURSIVE ModuleLines(_, _)
ModuleLines(list, i) ==
  IF i < Len(list)
    THEN (IF GetModuleAtIndex(list, i) # <<>>
            THEN <<ModuleLine(GetModuleAtIndex(list, i)[1])>>
            ELSE <<>>)
         \o ModuleLines(list, i + 1)
    ELSE <<>>

\* if (options.modules_debug_info) { ... }
ModulesDebugInfo ==
  /\ pc = "modules_debug_info"
  /\ attempted' = Append(attempted, "GetModuleList")
  /\ \E ml \in ModuleLists :
       /\ modules' = ml
       /\ IF ml.present
            THEN /\ sink' = sink \o ModuleLines(ml.list, 0)
                 /\ found' = found \cup {"module_list"}
                 /\ result' = "true"
                 /\ exit_code' = 0
            ELSE /\ result' = "false"
                 /\ exit_code' = 1
                 /\ UNCHANGED <<sink, found>>
  /\ pc' = "exit"
  /\ UNCHANGED <<rest, npos, options, stderr, unread, sys_info, errors, log,
                 rawVars>>

\* sprintf(sys_ver, "%u.%u.%u", major, minor, build) into the zeroed sys_ver.
SysVer(si) ==
  IF si.raw
    THEN <<si.major_version, ".", si.minor_version, ".", si.build_number>>
    ELSE <<>>

\* if (options.platform_info) { ... }
PlatformInfo ==
  /\ pc = "platform_info"
  /\ attempted' = Append(attempted, "GetSystemInfo")
  /\ \E si \in SystemInfos :
       /\ sys_info' = si
       /\ IF si.present
            THEN /\ sink' = Append(sink, <<"platform", si.os, SysVer(si), si.cpu>>)
                 /\ found' = found \cup {"system_info"}
                 /\ result' = "true"
                 /\ exit_code' = 0
            ELSE /\ result' = "false"
                 /\ exit_code' = 1
                 /\ UNCHANGED <<sink, found>>
  /\ pc' = "exit"
  /\ UNCHANGED <<rest, npos, options, stderr, unread, modules, errors, log,
                 rawVars>>

\* minidump.Print(); int errors = 0;
PrintHeader ==
  /\ pc = "Print"
  /\ attempted' = Append(attempted, "Print")
  /\ sink' = Append(sink, <<"section", "minidump">>)
  /\ errors' = 0
  /\ pc' = "thread_list"
  /\ UNCHANGED <<rest, npos, options, exit_code, result, stderr, found, unread,
                 modules, sys_info, log, rawVars>>

\* What every step of the full dump leaves alone.
StepFrame == UNCHANGED <<rest, npos, options, exit_code, result, stderr,
                         unread, modules, sys_info, rawVars>>

\* A required record whose absence ends the dump: return instead of going on.
RequiredRecordShortCircuit(rec, call, next) ==
  /\ pc = rec
  /\ attempted' = Append(attempted, call)
  /\ \E present \in BOOLEAN :
       IF present
         THEN /\ found' = found \cup {rec}
              /\ sink' = Append(sink, <<"section", rec>>)
              /\ pc' = next
              /\ UNCHANGED <<errors, log>>
         ELSE /\ errors' = errors + 1
              /\ log' = Append(log, <<"ERROR", call>>)
              /\ pc' = "return"
              /\ UNCHANGED <<found, sink>>
  /\ StepFrame

\* X* x = minidump.GetX(); if (!x) { ++errors; BPLOG(ERROR) } else x->Print();
RequiredRecord(rec, call, next) ==
  /\ pc = rec
  /\ attempted' = Append(attempted, call)
  /\ \E present \in BOOLEAN :
       IF present
         THEN /\ found' = found \cup {rec}
              /\ sink' = Append(sink, <<"section", rec>>)
              /\ UNCHANGED <<errors, log>>
         ELSE /\ errors' = errors + 1
              /\ log' = Append(log, <<"ERROR", call>>)
              /\ UNCHANGED <<found, sink>>
  /\ pc' = next
  /\ StepFrame

\* X* x = minidump.GetX(); if (!x) { BPLOG(INFO) } else x->Print();
InfoRecord(rec, call, next) ==
  /\ pc = rec
  /\ attempted' = Append(attempted, call)
  /\ \E present \in BOOLEAN :
       IF present
         THEN /\ found' = found \cup {rec}
              /\ sink' = Append(sink, <<"section", rec>>)
              /\ UNCHANGED log
         ELSE /\ log' = Append(log, <<"INFO", call>>)
              /\ UNCHANGED <<found, sink>>
  /\ pc' = next
  /\ UNCHANGED errors
  /\ StepFrame

\* X* x = minidump.GetX(); if (x) x->Print();
SilentRecord(rec, call, next) ==
  /\ pc = rec
  /\ attempted' = Append(attempted, call)
  /\ \E present \in BOOLEAN :
       IF present
         THEN /\ found' = found \cup {rec}
              /\ sink' = Append(sink, <<"section", rec>>)
         ELSE UNCHANGED <<found, sink>>
  /\ pc' = next
  /\ UNCHANGED <<errors, log>>
  /\ StepFrame

ThreadList == RequiredRecord("thread_list", "GetThreadList", "thread_name_list")

ThreadNameList == SilentRecord("thread_name_list", "GetThreadNameList", "module_list")

\* MinidumpModuleList::set_max_modules(UINT32_MAX) comes first: no module
\* count makes GetModuleList fail here.
ModuleList == RequiredRecord("module_list", "GetModuleList", "memory_list")

MemoryList == RequiredRecord("memory_list", "GetMemoryList", "exception")

\* The exception record treated as a required one.
ExceptionCounted == RequiredRecord("exception", "GetException", "assertion")

Exception == InfoRecord("exception", "GetException", "assertion")

Assertion == InfoRecord("assertion", "GetAssertion", "system_info")

SystemInfo == RequiredRecord("system_info", "GetSystemInfo", "misc_info")

MiscInfo == RequiredRecord("misc_info", "GetMiscInfo", "breakpad_info")

BreakpadInfo == InfoRecord("breakpad_info", "GetBreakpadInfo", "memory_info_list")

\* The memory-info list treated as an optional record.
MemoryInfoListOptional ==
  InfoRecord("memory_info_list", "GetMemoryInfoList", "crashpad_info")

MemoryInfoList == RequiredRecord("memory_info_list", "GetMemoryInfoList", "crashpad_info")

CrashpadInfo == SilentRecord("crashpad_info", "GetCrashpadInfo", RawStreams[1])

-----------------------------------------------------------------------------
(***************************************************************************)
(* DumpRawStream, statement by statement.                                  *)
(***************************************************************************)
\* The required records: those whose absence does ++errors.
Required == {"thread_list", "module_list", "memory_list", "system_info",
             "misc_info", "memory_info_list"}

\* The NUL bytes of c at offsets from..to-1.
NulsIn(c, from, to) == {n \in c : LessEq(from, n) /\ Less(n, to)}

Least(S) == CHOOSE n \in S : \A m \in S : LessEq(n, m)

\* memchr(&contents[from], 0, count): <<>> is NULL, else <<offset of the NUL>>.
Memchr(c, from, count) ==
  IF NulsIn(c, from, Add(from, count)) = {}
    THEN <<>>
    ELSE <<Least(NulsIn(c, from, Add(from, count)))>>

\* The int that printf's va_arg(ap, int) reads from a uint32_t argument is
\* negative exactly when the value is above INT_MAX.
ReadAsNegativeInt(u) == Less(INT_MAX, u)

\* printf("%.*s", precision, &contents[from]) on a buffer of `size` bytes:
\* a negative precision counts as no precision, and then only a NUL inside
\* the buffer stops the read.
PrintfStaysInside(c, size, from, precision) ==
  \/ ~ReadAsNegativeInt(precision)
  \/ NulsIn(c, from, size) # {}

\* One past the last byte that printf writes, when it stays inside.
PrintfEnd(c, size, from, precision) ==
  LET limit == IF ReadAsNegativeInt(precision) THEN size ELSE Add(from, precision)
      stop == NulsIn(c, from, limit)
  IN  IF stop = {} THEN limit ELSE Least(stop)

\* One past the last byte that printf reads (it reads the NUL that stops it).
PrintfReadEnd(c, size, from, precision) ==
  LET limit == IF ReadAsNegativeInt(precision) THEN size ELSE Add(from, precision)
      stop == NulsIn(c, from, limit)
  IN  IF stop = {} THEN limit ELSE Add(Least(stop), One)

\* Bytes from..to-1 of contents appended to the text; nothing when empty.
Emit(text, from, to) ==
  IF from = to THEN text ELSE Append(text, <<"bytes", from, to>>)

RawFrame == UNCHANGED <<procVars, stream, file, errors_in>>

\* uint32_t length = 0; if (!minidump->SeekToStreamType(type, &length)) return;
SeekToStreamType ==
  /\ rpc = "SeekToStreamType"
  /\ calls' = Append(calls, "SeekToStreamType")
  /\ IF file.located
       THEN /\ frame' = [frame EXCEPT !.length = file.length]
            /\ rpc' = "printf_header"
       ELSE /\ rpc' = "returned"
            /\ UNCHANGED frame
  /\ UNCHANGED <<errors, log, out, touched, iterations>>
  /\ RawFrame

\* printf("Stream %s:\n", stream_name);
PrintfHeader ==
  /\ rpc = "printf_header"
  /\ out' = Append(out, <<"Stream", RawStreams[stream]>>)
  /\ rpc' = "length_check"
  /\ UNCHANGED <<errors, log, frame, touched, calls, iterations>>
  /\ RawFrame

\* if (length == 0) { printf("\n"); return; }
LengthZero ==
  /\ rpc = "length_check"
  /\ frame.length = Zero
  /\ out' = Append(out, <<"\n">>)
  /\ rpc' = "returned"
  /\ UNCHANGED <<errors, log, frame, touched, calls, iterations>>
  /\ RawFrame

\* ReadBytes failing without the ++*errors.
ReadBytesIgnoresFailure ==
  /\ rpc = "length_check"
  /\ frame.length # Zero
  /\ calls' = Append(calls, "ReadBytes")
  /\ IF file.readable
       THEN /\ frame' = [frame EXCEPT !.size = frame.length,
                                      !.contents = file.nuls,
                                      !.current_offset = Zero]
            /\ rpc' = "while"
            /\ UNCHANGED log
       ELSE /\ log' = Append(log, <<"ERROR", "minidump.ReadBytes failed">>)
            /\ rpc' = "returned"
            /\ UNCHANGED frame
  /\ UNCHANGED <<errors, out, touched, iterations>>
  /\ RawFrame

\* std::vector<char> contents(length);
\* if (!minidump->ReadBytes(&contents[0], length)) { ++*errors; BPLOG; return; }
\* size_t current_offset = 0;
ReadBytes ==
  /\ rpc = "length_check"
  /\ frame.length # Zero
  /\ calls' = Append(calls, "ReadBytes")
  /\ IF file.readable
       THEN /\ frame' = [frame EXCEPT !.size = frame.length,
                                      !.contents = file.nuls,
                                      !.current_offset = Zero]
            /\ rpc' = "while"
            /\ UNCHANGED <<errors, log>>
       ELSE /\ errors' = errors + 1
            /\ log' = Append(log, <<"ERROR", "minidump.ReadBytes failed">>)
            /\ rpc' = "returned"
            /\ UNCHANGED frame
  /\ UNCHANGED <<out, touched, iterations>>
  /\ RawFrame

\* while (current_offset < length) {
\*   size_t remaining = length - current_offset;
\*   uint32_t int_remaining = remaining;
WhileEnter ==
  /\ rpc = "while"
  /\ Less(frame.current_offset, frame.length)
  /\ frame' = [frame EXCEPT
                 !.remaining = Sub(frame.length, frame.current_offset),
                 !.int_remaining = Sub(frame.length, frame.current_offset)]
  /\ iterations' = iterations + 1
  /\ rpc' = "printf_span"
  /\ UNCHANGED <<errors, log, out, touched, calls>>
  /\ RawFrame

\* while (current_offset < length) is false.
WhileExit ==
  /\ rpc = "while"
  /\ ~Less(frame.current_offset, frame.length)
  /\ rpc' = "printf_tail"
  /\ UNCHANGED <<errors, log, frame, out, touched, calls, iterations>>
  /\ RawFrame

\* printf("%.*s", int_remaining, &contents[current_offset]);
PrintfSpan ==
  /\ rpc = "printf_span"
  /\ PrintfStaysInside(frame.contents, frame.size, frame.current_offset,
                       frame.int_remaining)
  /\ out' = Emit(out, frame.current_offset,
                 PrintfEnd(frame.contents, frame.size, frame.current_offset,
                           frame.int_remaining))
  /\ touched' = <<frame.current_offset,
                  PrintfReadEnd(frame.contents, frame.size, frame.current_offset,
                                frame.int_remaining)>>
  /\ rpc' = "memchr"
  /\ UNCHANGED <<errors, log, frame, calls, iterations>>
  /\ RawFrame

\* The same printf when the precision reads as negative and no NUL is left
\* in the buffer: the read runs past contents[length - 1].  What lies there
\* is not the program's: the read finds a NUL some bytes on and printf writes
\* everything before it, or it reaches unmapped memory and the process dies.
PrintfSpanOverrun ==
  /\ rpc = "printf_span"
  /\ ~PrintfStaysInside(frame.contents, frame.size, frame.current_offset,
                        frame.int_remaining)
  /\ \E extra \in 0..MaxOverrun, mapped \in BOOLEAN :
       /\ touched' = <<frame.current_offset,
                       Add(frame.size, U32(extra + 1))>>
       /\ IF mapped
            THEN /\ out' = Emit(out, frame.current_offset,
                                Add(frame.size, U32(extra)))
                 /\ rpc' = "memchr"
            ELSE /\ rpc' = "fault"
                 /\ UNCHANGED out
  /\ UNCHANGED <<errors, log, frame, calls, iterations>>
  /\ RawFrame

\* char* next_null = memchr(&contents[current_offset], 0, remaining);
\* if (next_null == NULL) break;
MemchrNull ==
  /\ rpc = "memchr"
  /\ frame' = [frame EXCEPT !.next_null =
                 Memchr(frame.contents, frame.current_offset, frame.remaining)]
  /\ touched' = <<frame.current_offset,
                  IF frame'.next_null = <<>>
                    THEN Add(frame.current_offset, frame.remaining)
                    ELSE Add(frame'.next_null[1], One)>>
  /\ rpc' = IF frame'.next_null = <<>> THEN "printf_tail" ELSE "printf_marker"
  /\ UNCHANGED <<errors, log, out, calls, iterations>>
  /\ RawFrame

\* printf("\\0\n"); size_t null_offset = next_null - &contents[0];
\* current_offset = null_offset + 1; }
PrintfMarker ==
  /\ rpc = "printf_marker"
  /\ out' = Append(out, <<"\\0\n">>)
  /\ frame' = [frame EXCEPT !.current_offset = Add(frame.next_null[1], One)]
  /\ rpc' = "while"
  /\ UNCHANGED <<errors, log, touched, calls, iterations>>
  /\ RawFrame

\* printf("\n\n");
PrintfTail ==
  /\ rpc = "printf_tail"
  /\ out' = out \o <<<<"\n">>, <<"\n">>>>
  /\ rpc' = "returned"
  /\ UNCHANGED <<errors, log, frame, touched, calls, iterations>>
  /\ RawFrame

DumpRawStream ==
  \/ SeekToStreamType
  \/ PrintfHeader
  \/ LengthZero
  \/ ReadBytes
  \/ WhileEnter
  \/ WhileExit
  \/ PrintfSpan
  \/ MemchrNull
  \/ PrintfMarker
  \/ PrintfTail

\* The Minidump getter PrintMinidumpDump calls for each record.
Getter == [thread_list |-> "GetThreadList", thread_name_list |-> "GetThreadNameList",
           module_list |-> "GetModuleList", memory_list |-> "GetMemoryList",
           exception |-> "GetException", assertion |-> "GetAssertion",
           system_info |-> "GetSystemInfo", misc_info |-> "GetMiscInfo",
           breakpad_info |-> "GetBreakpadInfo",
           memory_info_list |-> "GetMemoryInfoList",
           crashpad_info |-> "GetCrashpadInfo"]

\* The first n elements of a sequence.
Prefix(seq, n) == SubSeq(seq, 1, n)

\* The elements of seq that are in the set S, in the order of seq.
Among(seq, S) == SelectSeq(seq, LAMBDA x : x \in S)

Min(a, b) == IF a < b THEN a ELSE b

Max(a, b) == IF a < b THEN b ELSE a

\* A run of the full dump that reaches the call on stream s with e errors:
\* the first required records are absent, every other record is present, and
\* when e exceeds the number of required records the first raw streams were
\* located and could not be read (the others are not in the container).
AbsentBefore(e) ==
  {Among(Records, Required)[k] : k \in 1..Min(e, Cardinality(Required))}

UnreadBefore(e) == {RawStreams[k] : k \in 1..Max(e - Cardinality(Required), 0)}

FoundBefore(e) ==
  {"minidump"} \cup ({Records[k] : k \in 1..Len(Records)} \ AbsentBefore(e))
               \cup UnreadBefore(e)

SinkBefore(e) ==
  <<<<"section", "minidump">>>>
  \o [k \in 1..Len(Among(Records, FoundBefore(e))) |->
        <<"section", Among(Records, FoundBefore(e))[k]>>]
  \o [k \in 1..Cardinality(UnreadBefore(e)) |-> <<"Stream", RawStreams[k]>>]

LogBefore(e) ==
  [k \in 1..Cardinality(AbsentBefore(e)) |->
     <<"ERROR", Getter[Among(Records, Required)[k]]>>]
  \o [k \in 1..Cardinality(UnreadBefore(e)) |->
        <<"ERROR", "minidump.ReadBytes failed">>]

AttemptedBefore(s) ==
  <<"Read", "Print">> \o [k \in 1..Len(Records) |-> Getter[Records[k]]]
                      \o Prefix(RawStreams, s - 1)

\* The state in which PrintMinidumpDump calls DumpRawStream on stream s of a
\* container that holds f there, with e errors counted so far.
CallDumpRawStream(s, f, e) ==
  /\ pc = RawStreams[s]
  /\ rest = <<>>
  /\ npos = 1
  /\ options = [DefaultOptions EXCEPT !.minidumpPath = "argv[optind]"]
  /\ exit_code = -1
  /\ result = "none"
  /\ sink = SinkBefore(e)
  /\ stderr = <<>>
  /\ log = LogBefore(e)
  /\ found = FoundBefore(e)
  /\ unread = Cardinality(UnreadBefore(e))
  /\ attempted = AttemptedBefore(s)
  /\ modules = [present |-> FALSE, list |-> <<>>]
  /\ sys_info = CHOOSE si \in SystemInfos : ~si.present
  /\ rpc = "SeekToStreamType"
  /\ stream = s
  /\ file = f
  /\ errors_in = e
  /\ errors = e
  /\ frame = IdleFrame
  /\ out = <<>>
  /\ touched = <<Zero, Zero>>
  /\ calls = <<>>
  /\ iterations = 0

\* Before the first raw stream the count is at most the number of required
\* records; each earlier raw stream of the container can have added one.
ErrorsBefore(s) == 0..(Cardinality(Required) + Min(s - 1, MaxRawStreams))

InitRaw ==
  \E s \in 1..Len(RawStreams), f \in SmallFiles :
    \E e \in ErrorsBefore(s) : CallDumpRawStream(s, f, e)

InitWide ==
  \E s \in 1..Len(RawStreams), f \in SmallFiles \cup WideFiles :
    \E e \in ErrorsBefore(s) : CallDumpRawStream(s, f, e)

NextRaw == DumpRawStream

NextWide == DumpRawStream \/ PrintfSpanOverrun

SpecRaw == InitRaw /\ [][NextRaw]_vars

SpecWide == InitWide /\ [][NextWide]_vars

-----------------------------------------------------------------------------
(***************************************************************************)
(* The six calls of DumpRawStream in PrintMinidumpDump, each as one step,  *)
(* and the return.                                                         *)
(***************************************************************************)
\* *errors after DumpRawStream on a stream f, given *errors = e on entry.
DumpRawStreamErrors(f, e) ==
  IF f.located /\ f.length # Zero /\ ~f.readable THEN e + 1 ELSE e

\* The BPLOG lines after the call.
DumpRawStreamLog(f, l) ==
  IF f.located /\ f.length # Zero /\ ~f.readable
    THEN Append(l, <<"ERROR", "minidump.ReadBytes failed">>)
    ELSE l

\* The sections on stdout after the call: the header line opens one.
DumpRawStreamSection(f, name, text) ==
  IF f.located THEN Append(text, <<"Stream", name>>) ELSE text

\* One stream of each kind: absent, empty, unreadable, readable.
StreamCases == {f \in SmallFiles : Less(f.length, U32(2)) /\ f.nuls = {}}

\* DumpRawStream(&minidump, RawStreams[s], "RawStreams[s]", &errors);
DumpRawStreamCall(s) ==
  /\ pc = RawStreams[s]
  /\ attempted' = Append(attempted, RawStreams[s])
  /\ \E f \in StreamCases :
       /\ f.located => Cardinality(found \cap RawStreamSet) < MaxRawStreams
       /\ errors' = DumpRawStreamErrors(f, errors)
       /\ log' = DumpRawStreamLog(f, log)
       /\ sink' = DumpRawStreamSection(f, RawStreams[s], sink)
       /\ found' = IF f.located THEN found \cup {RawStreams[s]} ELSE found
       /\ unread' = IF f.located /\ f.length # Zero /\ ~f.readable
                      THEN unread + 1 ELSE unread
  /\ pc' = IF s < Len(RawStreams) THEN RawStreams[s + 1] ELSE "return"
  /\ UNCHANGED <<rest, npos, options, exit_code, result, stderr, modules,
                 sys_info, rawVars>>

\* return errors == 0;  and in main: return PrintMinidumpDump(options) ? 0 : 1;
ReturnErrors ==
  /\ pc = "return"
  /\ result' = IF errors = 0 THEN "true" ELSE "false"
  /\ exit_code' = IF errors = 0 THEN 0 ELSE 1
  /\ pc' = "exit"
  /\ UNCHANGED <<rest, npos, options, sink, stderr, found, unread, attempted,
                 modules, sys_info, errors, log, rawVars>>

PrintMinidumpDump ==
  \/ ReadMinidump
  \/ ModulesDebugInfo
  \/ PlatformInfo
  \/ PrintHeader
  \/ ThreadList
  \/ ThreadNameList
  \/ ModuleList
  \/ MemoryList
  \/ Exception
  \/ Assertion
  \/ SystemInfo
  \/ MiscInfo
  \/ BreakpadInfo
  \/ MemoryInfoList
  \/ CrashpadInfo
  \/ \E s \in 1..Len(RawStreams) : DumpRawStreamCall(s)
  \/ ReturnErrors

Next == SetupOptions \/ PrintMinidumpDump

Spec == Init /\ [][Next]_vars

-----------------------------------------------------------------------------
(***************************************************************************)
(* The initial states of SpecRaw are states of the whole program: Spec     *)
(* reaches the caller's part of each of them.                              *)
(***************************************************************************)
CallerReached(s, e) ==
  /\ pc = RawStreams[s]
  /\ errors = e
  /\ sink = SinkBefore(e)
  /\ log = LogBefore(e)
  /\ found = FoundBefore(e)
  /\ attempted = AttemptedBefore(s)

-----------------------------------------------------------------------------
(***************************************************************************)
(* The reference rendering of a raw stream: the buffer split at its NUL    *)
(* bytes.                                                                  *)
(***************************************************************************)
\* The j-th NUL of the buffer, counting from 1.
NthNul(nuls, j) == CHOOSE n \in nuls : Cardinality({m \in nuls : Less(m, n)}) = j - 1

\* Where the j-th segment starts: at 0, or one past the NUL before it.
SegmentStart(nuls, j) == IF j = 1 THEN Zero ELSE Add(NthNul(nuls, j - 1), One)

\* Segments j..k, each written byte for byte and followed by the marker.
RECURSIVE TerminatedSegments(_, _, _)
TerminatedSegments(nuls, j, k) ==
  IF j > k
    THEN <<>>
    ELSE Append(Emit(<<>>, SegmentStart(nuls, j), NthNul(nuls, j)), <<"\\0\n">>)
         \o TerminatedSegments(nuls, j + 1, k)

\* All terminated segments, the unterminated rest if there is one, two line breaks.
ReferenceRendering(len, nuls) ==
  LET k == Cardinality(nuls)
  IN  Emit(TerminatedSegments(nuls, 1, k), SegmentStart(nuls, k + 1), len)
      \o <<<<"\n">>, <<"\n">>>>

Header == <<"Stream", RawStreams[stream]>>

ReadOk == file.located /\ file.length # Zero /\ file.readable

ScanStarted == rpc \in {"while", "printf_span", "memchr", "printf_marker",
                        "printf_tail", "fault"}
               \/ (rpc = "returned" /\ ReadOk)

-----------------------------------------------------------------------------
(***************************************************************************)
(* Claims about DumpRawStream.                                             *)
(***************************************************************************)
\* C4: for every successfully read buffer of length > 0, what DumpRawStream
\* writes after the header is the reference rendering: every NUL-terminated
\* segment byte for byte followed by the marker, the unterminated rest byte
\* for byte without a marker, then two line breaks.
C4_RenderingIsReference ==
  (rpc = "returned" /\ ReadOk)
    => out = <<Header>> \o ReferenceRendering(file.length, file.nuls)

\* C4, for the buffers whose length an int holds: the rendering is the
\* reference rendering.
RenderingIsReferenceUpToIntMax ==
  (rpc = "returned" /\ ReadOk /\ LessEq(file.length, INT_MAX))
    => out = <<Header>> \o ReferenceRendering(file.length, file.nuls)

\* C5: no span print and no NUL search reads a byte of contents outside
\* [current_offset, length), whatever the length and the content.
C5_ReadsStayInsideBuffer ==
  /\ LessEq(touched[2], frame.length)
  /\ rpc \in {"memchr", "printf_marker"} => touched[1] = frame.current_offset

\* C5, for the buffers whose length an int holds.
ReadsStayInsideUpToIntMax ==
  LessEq(file.length, INT_MAX) => C5_ReadsStayInsideBuffer

\* C10: at the loop head 0 <= current_offset <= length; the NUL an iteration
\* finds is at or after current_offset, so the offset grows; the loop body
\* starts at most (number of NULs + 1) times; and a scan that has ended has
\* written the two trailing line breaks.
C10_ScanTerminates ==
  /\ rpc = "while" => LessEq(frame.current_offset, frame.length)
  /\ rpc = "printf_marker" =>
       /\ LessEq(frame.current_offset, frame.next_null[1])
       /\ Less(frame.next_null[1], frame.length)
  /\ iterations <= Cardinality(file.nuls) + 1
  /\ (ScanStarted /\ rpc \in {"returned", "fault"}) =>
       /\ rpc = "returned"
       /\ Len(out) >= 2
       /\ out[Len(out)] = <<"\n">>
       /\ out[Len(out) - 1] = <<"\n">>

\* C10, for the buffers whose length an int holds.
ScanTerminatesUpToIntMax ==
  LessEq(file.length, INT_MAX) => C10_ScanTerminates

CallAgreesWithStatements ==
  rpc = "returned" =>
    /\ errors = DumpRawStreamErrors(file, errors_in)
    /\ log = DumpRawStreamLog(file, LogBefore(errors_in))
    /\ (file.located <=> (out # <<>> /\ out[1] = Header))

-----------------------------------------------------------------------------
(***************************************************************************)
(* Claims about the whole program.                                         *)
(***************************************************************************)
\* Every call the full dump makes on the Minidump object, in order.
FullDumpCalls ==
  <<"Read", "Print">> \o [k \in 1..Len(Records) |-> Getter[Records[k]]]
                      \o RawStreams

\* The sections on stdout of a full dump that found the things in S.
SectionsOf(S) ==
  <<<<"section", "minidump">>>>
  \o [k \in 1..Len(Among(Records, S)) |-> <<"section", Among(Records, S)[k]>>]
  \o [k \in 1..Len(Among(RawStreams, S)) |-> <<"Stream", Among(RawStreams, S)[k]>>]

\* The records PrintMinidumpDump has asked the library for so far.
Asked == {r \in RecordSet : \E k \in 3..Len(attempted) : attempted[k] = Getter[r]}

\* The container was read and neither -M nor -P was given.
FullDump ==
  /\ "minidump" \in found
  /\ ~options.modules_debug_info
  /\ ~options.platform_info

\* PrintMinidumpDump has returned from the full dump.
FullDumpDone == FullDump /\ pc = "exit"

\* C1: in a full dump the tally is the number of absent required records
\* plus the number of located raw streams that could not be read; optional
\* records and absent raw streams never count; the result is success iff the
\* tally is zero at the end.  Without the thread list the result is failure;
\* with only the exception record absent it is success.
C1_TallyDecidesResult ==
  FullDump =>
    /\ errors = Cardinality((Required \cap Asked) \ found) + unread
    /\ pc = "exit" =>
         /\ Asked = RecordSet
         /\ result = (IF errors = 0 THEN "true" ELSE "false")
         /\ "thread_list" \notin found => result = "false"
         /\ (RecordSet \ found = {"exception"} /\ unread = 0) => result = "true"

\* A full dump that lacks an optional and a required record and could not
\* read two raw streams.
C1_Witness ==
  /\ FullDumpDone
  /\ RecordSet \ found = {"exception", "memory_info_list"}
  /\ unread = 2
  /\ errors = 3
  /\ result = "false"
  /\ "MD_LINUX_MAPS" \in found

\* C2: the full dump never short-circuits: whatever is absent or unreadable,
\* every step is attempted exactly once in the fixed order, and stdout holds
\* the section of every record found, in that order.
C2_NeverShortCircuits ==
  FullDump =>
    /\ attempted = Prefix(FullDumpCalls, Len(attempted))
    /\ Len(attempted) >= 2 => sink = SectionsOf(found)
    /\ pc \in {"return", "exit"} => attempted = FullDumpCalls

\* A full dump that lacked its first record and could not read a raw stream,
\* and still printed the last record and the last raw stream.
C2_Witness ==
  /\ FullDumpDone
  /\ "thread_list" \notin found
  /\ unread >= 1
  /\ "crashpad_info" \in found
  /\ "MD_LINUX_MAPS" \in found
  /\ attempted = FullDumpCalls

\* The container of the end-to-end test: header, thread list, module list,
\* memory list, system info and misc info, and nothing else.
EndToEndContainer == {"minidump", "thread_list", "module_list", "memory_list",
                      "system_info", "misc_info"}

\* C3 as stated: a full dump of that container runs to completion, prints
\* every mandatory section and reports success (exit code 0).
C3_EndToEndSucceeds ==
  (FullDumpDone /\ found = EndToEndContainer) =>
    /\ attempted = FullDumpCalls
    /\ sink = SectionsOf(EndToEndContainer)
    /\ result = "true"
    /\ exit_code = 0

\* C3 amended: with the memory-info list in the container as well, the full
\* dump runs to completion, prints every mandatory section and reports
\* success; without it the run completes, prints the sections of the records
\* it found, and reports failure with a tally of one.
C3_EndToEndWithMemoryInfo ==
  /\ (FullDumpDone /\ found = EndToEndContainer \cup {"memory_info_list"}) =>
       /\ attempted = FullDumpCalls
       /\ sink = SectionsOf(EndToEndContainer \cup {"memory_info_list"})
       /\ \A r \in Required : <<"section", r>> \in {sink[k] : k \in 1..Len(sink)}
       /\ errors = 0
       /\ result = "true"
       /\ exit_code = 0
  /\ (FullDumpDone /\ found = EndToEndContainer) =>
       /\ attempted = FullDumpCalls
       /\ sink = SectionsOf(EndToEndContainer)
       /\ errors = 1
       /\ result = "false"
       /\ exit_code = 1

\* The container with the memory-info list added: the full dump succeeded.
C3_Witness ==
  /\ FullDumpDone
  /\ found = EndToEndContainer \cup {"memory_info_list"}
  /\ result = "true"

\* The lines module-summary mode owes for a module list.
ExpectedModuleLines(list) ==
  [k \in 1..Len(list) |-> <<"module", list[k].code_file, list[k].code_identifier,
                            list[k].debug_file, list[k].debug_identifier>>]

\* PrintMinidumpDump has returned from module-summary mode.
ModuleSummaryDone ==
  /\ "minidump" \in found
  /\ options.modules_debug_info
  /\ pc = "exit"

\* C6: module-summary mode prints one line per module, in index order, each
\* with the module's four fields, and succeeds (also for an empty list); it
\* fails, with no output, iff the module list is unavailable; it asks for and
\* prints nothing else.
C6_ModuleSummary ==
  ModuleSummaryDone =>
    /\ attempted = <<"Read", "GetModuleList">>
    /\ modules.present =>
         /\ Len(sink) = Len(modules.list)
         /\ sink = ExpectedModuleLines(modules.list)
         /\ result = "true"
         /\ exit_code = 0
    /\ ~modules.present =>
         /\ sink = <<>>
         /\ result = "false"
         /\ exit_code = 1
    /\ (result = "false") <=> ~modules.present

\* Two different modules, printed in the order of the list.
C6_Witness ==
  /\ ModuleSummaryDone
  /\ modules.present
  /\ Len(modules.list) = 2
  /\ modules.list[1] # modules.list[2]
  /\ sink = ExpectedModuleLines(modules.list)
  /\ result = "true"

\* The output and the success rule of each mode, once PrintMinidumpDump has
\* returned: module summary, platform summary, full dump.
ModuleSummaryRan ==
  /\ attempted = <<"Read", "GetModuleList">>
  /\ sink = (IF modules.present THEN ExpectedModuleLines(modules.list) ELSE <<>>)
  /\ result = (IF modules.present THEN "true" ELSE "false")

PlatformSummaryRan ==
  /\ attempted = <<"Read", "GetSystemInfo">>
  /\ sink = (IF sys_info.present
               THEN <<<<"platform", sys_info.os, SysVer(sys_info), sys_info.cpu>>>>
               ELSE <<>>)
  /\ result = (IF sys_info.present THEN "true" ELSE "false")

FullDumpRan ==
  /\ attempted = FullDumpCalls
  /\ sink = SectionsOf(found)
  /\ result = (IF errors = 0 THEN "true" ELSE "false")

\* PrintMinidumpDump read the container and has returned.
Returned == pc = "exit" /\ "minidump" \in found

\* C7 as stated: one mode runs, the full dump iff neither flag is set, and
\* the options never hold two mode flags at once.
C7_OneModeOneFlag ==
  /\ ~(options.modules_debug_info /\ options.platform_info)
  /\ Returned =>
       /\ (FullDumpRan <=> (~options.modules_debug_info /\ ~options.platform_info))
       /\ ModuleSummaryRan \/ PlatformSummaryRan \/ FullDumpRan

\* C7 amended: one mode runs: module summary if -M was given (with or
\* without -P), else platform summary if -P was given, else the full dump.
\* The options hold both flags when both were given.
C7_OneModeRuns ==
  Returned =>
    /\ options.modules_debug_info => ModuleSummaryRan
    /\ (~options.modules_debug_info /\ options.platform_info) => PlatformSummaryRan
    /\ (~options.modules_debug_info /\ ~options.platform_info) => FullDumpRan
    /\ (FullDumpRan <=> (~options.modules_debug_info /\ ~options.platform_info))
    /\ ~(ModuleSummaryRan /\ PlatformSummaryRan)

\* Both flags given: the module summary ran.
C7_Witness ==
  /\ Returned
  /\ options.modules_debug_info
  /\ options.platform_info
  /\ modules.present
  /\ Len(modules.list) = 1
  /\ ModuleSummaryRan

\* SetupOptions ended the process.
ExitedInSetup == pc = "exit" /\ result = "none"

\* C8 as stated: no positional path exits 1; an unrecognized flag writes the
\* usage to stderr and exits 1; -h writes the usage and exits 0; all of that
\* before the container is opened; otherwise exit 0 iff the mode succeeded.
C8_CommandLineContract ==
  pc = "exit" =>
    /\ npos = 0 => exit_code = 1
    /\ ExitedInSetup =>
         /\ attempted = <<>>
         /\ found = {}
         /\ \/ sink = <<<<"usage">>>> /\ stderr = <<>> /\ exit_code = 0
            \/ sink = <<>> /\ Len(stderr) = 1 /\ exit_code = 1
    /\ ~ExitedInSetup => (exit_code = 0 <=> result = "true")

\* C8 amended: getopt hands the flags over left to right and the first -h or
\* unrecognized flag ends the process at once: -h writes the usage to stdout
\* and exits 0, an unrecognized flag writes it to stderr and exits 1,
\* whatever follows on the command line.  When every flag is one of -x, -M,
\* -P, a command line without exactly one path exits 1.  All of these exits
\* come before the container is opened.  Otherwise the exit code is 0 iff
\* the mode succeeded.
C8_FirstDecidingFlag ==
  [][/\ (pc = "getopt" /\ rest # <<>> /\ Head(rest) = "h") =>
          /\ exit_code' = 0
          /\ sink' = <<<<"usage">>>>
          /\ stderr' = <<>>
          /\ attempted' = <<>> /\ found' = {} /\ result' = "none"
     /\ (pc = "getopt" /\ rest # <<>> /\ Head(rest) = "?") =>
          /\ exit_code' = 1
          /\ stderr' = <<<<"usage">>>>
          /\ sink' = <<>>
          /\ attempted' = <<>> /\ found' = {} /\ result' = "none"
     /\ (pc = "getopt" /\ rest = <<>> /\ npos # 1) =>
          /\ exit_code' = 1
          /\ stderr' = <<<<"Missing minidump file">>>>
          /\ sink' = <<>>
          /\ attempted' = <<>> /\ found' = {} /\ result' = "none"
     /\ (pc = "getopt" /\ pc' # "exit") => exit_code' = -1
     /\ (pc # "getopt" /\ pc' = "exit") =>
          exit_code' = (IF result' = "true" THEN 0 ELSE 1)
    ]_vars

\* -h with no path: usage on stdout, exit 0.
C8_Witness ==
  /\ pc = "exit"
  /\ npos = 0
  /\ exit_code = 0
  /\ sink = <<<<"usage">>>>
  /\ attempted = <<>>

====
